---- MODULE Spec2Model ----
(***************************************************************************)
(* A model of billion-air-flow:                                            *)
(*   - scripts/reconstruct_csvs.py : the Parquet -> CSV batch converter    *)
(*   - utils/filesystem.py         : the tiered path resolver              *)
(*   - utils/sysinfo.py            : the host diagnostics collectors       *)
(* File names are sequences of one-character strings, paths are sequences  *)
(* of components, so that suffix tests, substring tests and str.replace    *)
(* are computed character by character as Python computes them.            *)
(***************************************************************************)
EXTENDS Integers, Sequences, FiniteSets, TLC

VARIABLES
    walk,       \* the input tree as os.walk yields it: a sequence of files
    year,       \* process_all_parquet's year argument of the current run
    month,      \* process_all_parquet's month argument of the current run
    pc,         \* "idle" | "walking" | "done" | "aborted"
    pos,        \* index in walk of the file the loop visits next
    run,        \* number of invocations of process_all_parquet started
    out,        \* output files: out path -> [src, kind]
    odirs,      \* output directories that exist
    log,        \* convert_parquet_to_csv calls of the current run
    prev,       \* what the previous run left: [valid, year, month, pc, out]
    platform,   \* platform.system() of the host
    dataset,    \* filesystem_data_paths' argument, as path components
    tier,       \* index in tiers of the tier filesystem_data_paths resolves next
    paths,      \* filesystem_data_paths' result so far: tier -> path
    fsdirs,     \* the tier directories that exist
    warns,      \* the warnings filesystem_data_paths has printed
    fpc,        \* "idle" | "resolving" | "returned" | "raised"
    env,        \* what each external source of the diagnostics answers
    report,     \* the diagnostics collected so far: category -> value
    summary,    \* what system_summary returned: the pieces of its line
    dpc         \* "idle" | the collector to run next | "returned" | "raised"

convVars == <<walk, year, month, pc, pos, run, out, odirs, log, prev>>
pathVars == <<dataset, tier, paths, fsdirs, warns, fpc>>
diagVars == <<env, report, summary, dpc>>

vars == <<convVars, pathVars, diagVars, platform>>

-----------------------------------------------------------------------------
(* Bounds *)

MaxFiles == 2
MaxRuns == 2
MaxStemFrags == 1
MaxFaults == 2
MaxQuads == 4
MaxDelta == 2

-----------------------------------------------------------------------------
(* Python values *)

\* Python's None; every character of a string is a one-character string, so
\* no string of the model equals it.
None == <<"None">>

\* bool(x) for x a str or None
Truthy(x) == x # None /\ x # <<>>

-----------------------------------------------------------------------------
(* Strings *)

PARQUET == <<".", "p", "a", "r", "q", "u", "e", "t">>
CSV == <<".", "c", "s", "v">>

\* s.endswith(suf)
EndsWith(s, suf) ==
    /\ Len(suf) <= Len(s)
    /\ SubSeq(s, Len(s) - Len(suf) + 1, Len(s)) = suf

\* s[i:].startswith(sub), i counted from 1
MatchAt(s, sub, i) ==
    /\ i + Len(sub) - 1 <= Len(s)
    /\ SubSeq(s, i, i + Len(sub) - 1) = sub

\* sub in s
Contains(s, sub) == \E i \in 1..(Len(s) + 1) : MatchAt(s, sub, i)

\* s.replace(old, new) for a non-empty old: every non-overlapping occurrence,
\* scanning from the left.
RECURSIVE ReplaceFrom(_, _, _, _)
ReplaceFrom(s, old, new, i) ==
    IF i > Len(s) THEN <<>>
    ELSE IF MatchAt(s, old, i)
         THEN new \o ReplaceFrom(s, old, new, i + Len(old))
         ELSE <<s[i]>> \o ReplaceFrom(s, old, new, i + 1)

Replace(s, old, new) == ReplaceFrom(s, old, new, 1)

Digits == <<"0", "1", "2", "3", "4", "5", "6", "7", "8", "9">>

DigitVal(c) == (CHOOSE k \in 1..10 : Digits[k] = c) - 1

\* int(s) for s a string of decimal digits
RECURSIVE IntOf(_)
IntOf(s) ==
    IF s = <<>> THEN 0
    ELSE 10 * IntOf(SubSeq(s, 1, Len(s) - 1)) + DigitVal(s[Len(s)])

\* str(n) for n >= 0
RECURSIVE StrOf(_)
StrOf(n) ==
    IF n < 10 THEN <<Digits[n + 1]>>
    ELSE StrOf(n \div 10) \o <<Digits[(n % 10) + 1]>>

\* f"{n:02d}" for n >= 0
Fmt02d(n) == IF Len(StrOf(n)) < 2 THEN <<"0">> \o StrOf(n) ELSE StrOf(n)

UPPERCASE == <<"A", "B", "C", "D", "E", "F", "G", "H", "I", "J", "K", "L", "M",
               "N", "O", "P", "Q", "R", "S", "T", "U", "V", "W", "X", "Y", "Z">>
LOWERCASE == <<"a", "b", "c", "d", "e", "f", "g", "h", "i", "j", "k", "l", "m",
               "n", "o", "p", "q", "r", "s", "t", "u", "v", "w", "x", "y", "z">>

Range(s) == {s[i] : i \in DOMAIN s}

\* re.IGNORECASE: a character, case folded
Lower(c) ==
    IF c \in Range(UPPERCASE)
    THEN LOWERCASE[CHOOSE i \in DOMAIN UPPERCASE : UPPERCASE[i] = c]
    ELSE c

LowerStr(s) == [i \in DOMAIN s |-> Lower(s[i])]

\* \s and \w of the regular expressions
IsSpace(c) == c \in {" ", "\t", "\n"}
IsWord(c) == c \in Range(UPPERCASE) \cup Range(LOWERCASE) \cup Range(Digits) \cup {"_"}

\* \b at the position before s[i] (i in 1..Len(s)+1)
WordBoundary(s, i) ==
    LET before == i > 1 /\ IsWord(s[i - 1])
        after == i <= Len(s) /\ IsWord(s[i])
    IN  before # after

\* str.strip()
RECURSIVE LStrip(_)
LStrip(s) == IF s # <<>> /\ IsSpace(Head(s)) THEN LStrip(Tail(s)) ELSE s
RECURSIVE RStrip(_)
RStrip(s) ==
    IF s # <<>> /\ IsSpace(s[Len(s)]) THEN RStrip(SubSeq(s, 1, Len(s) - 1)) ELSE s
Strip(s) == LStrip(RStrip(s))

\* f"-{int(month):02d}"
MonthToken(m) == <<"-">> \o Fmt02d(IntOf(m))

-----------------------------------------------------------------------------
(* Paths: sequences of components *)

CURDIR == <<".">>

\* os.path.join(a, b) for a relative b
Join(a, b) == a \o b

\* os.path.relpath(path, start) for a path at or below start
Relpath(path, start) ==
    IF path = start THEN <<CURDIR>>
    ELSE SubSeq(path, Len(start) + 1, Len(path))

\* os.path.dirname(path)
Dirname(path) == SubSeq(path, 1, Len(path) - 1)

-----------------------------------------------------------------------------
(* scripts/reconstruct_csvs.py *)

Y2020 == <<"2", "0", "2", "0">>
Y2019 == <<"2", "0", "1", "9">>

\* main(): input_root and output_root, the "parquet" and "csv" subfolders of
\* the hot and the cold tier of the dataset
INPUT_ROOT == <<<<"hot", "data">>, <<"nyc_tlc">>, <<"parquet">>>>
OUTPUT_ROOT == <<<<"cold", "data">>, <<"nyc_tlc">>, <<"csv">>>>

\* FilterPass without the year test
FilterPassNoYear(fname, y, m) ==
    /\ EndsWith(fname, PARQUET)
    /\ ~(Truthy(m) /\ ~Contains(fname, <<"-">> \o Fmt02d(IntOf(m))))

\* FilterPass with the month written as given, not zero-padded
FilterPassRawMonth(fname, y, m) ==
    /\ EndsWith(fname, PARQUET)
    /\ ~(Truthy(y) /\ ~Contains(fname, y))
    /\ ~(Truthy(m) /\ ~Contains(fname, <<"-">> \o m))

\* The loop's filters: True when the file goes on to convert_parquet_to_csv.
FilterPass(fname, y, m) ==
    /\ EndsWith(fname, PARQUET)
    /\ ~(Truthy(y) /\ ~Contains(fname, y))
    /\ ~(Truthy(m) /\ ~Contains(fname, MonthToken(m)))

\* The mirrored output path of the file fname found in dirpath.
OutFile(input_root, output_root, dirpath, fname) ==
    LET rel_path == Relpath(dirpath, input_root)
        out_dir == Join(output_root, rel_path)
    IN  Join(out_dir, <<Replace(fname, PARQUET, CSV)>>)

\* os.path.normpath, as far as the paths of the model need it
Normpath(path) == SelectSeq(path, LAMBDA c : c # CURDIR)

Ancestors(path) == {SubSeq(path, 1, k) : k \in 1..Len(path)}

\* os.makedirs(d, exist_ok=True): nothing to do when d is there; otherwise the
\* operating system either creates d and its missing ancestors or refuses,
\* and then makedirs raises OSError.
Makedirs(ds, d) ==
    IF Normpath(d) \in ds
    THEN {[odirs |-> ds, raised |-> FALSE]}
    ELSE {[odirs |-> ds \cup Ancestors(Normpath(d)), raised |-> FALSE],
          [odirs |-> ds, raised |-> TRUE]}

\* duckdb.sql("COPY (SELECT * FROM read_parquet(in_file)) TO out_file ..."):
\* the engine writes the whole file, or raises having written nothing, or
\* raises having written part of it.
Engine(o, in_file, out_file) ==
    {[out |-> (out_file :> [src |-> in_file, kind |-> "full"]) @@ o,
      result |-> "done"],
     [out |-> o, result |-> "failed"],
     [out |-> (out_file :> [src |-> in_file, kind |-> "partial"]) @@ o,
      result |-> "failed"]}

\* Convert without the test for an existing output file
ConvertOverwrite(o, ds, in_file, out_file) ==
    UNION {
        IF mk.raised
        THEN {[out |-> o, odirs |-> mk.odirs, result |-> "raised"]}
        ELSE {[out |-> e.out, odirs |-> mk.odirs, result |-> e.result] :
                e \in Engine(o, in_file, out_file)}
        : mk \in Makedirs(ds, Dirname(out_file))}

\* Convert skipping only an existing output file that is complete
ConvertRedoPartial(o, ds, in_file, out_file) ==
    UNION {
        IF mk.raised
        THEN {[out |-> o, odirs |-> mk.odirs, result |-> "raised"]}
        ELSE IF out_file \in DOMAIN o /\ o[out_file].kind = "full"
        THEN {[out |-> o, odirs |-> mk.odirs, result |-> "skipped"]}
        ELSE {[out |-> e.out, odirs |-> mk.odirs, result |-> e.result] :
                e \in Engine(o, in_file, out_file)}
        : mk \in Makedirs(ds, Dirname(out_file))}

\* convert_parquet_to_csv(in_file, out_file): the states it can leave and how
\* it ends: "skipped", "done", "failed" (the engine raised, caught), or
\* "raised" (makedirs raised, not caught).
Convert(o, ds, in_file, out_file) ==
    UNION {
        IF mk.raised
        THEN {[out |-> o, odirs |-> mk.odirs, result |-> "raised"]}
        ELSE IF out_file \in DOMAIN o
        THEN {[out |-> o, odirs |-> mk.odirs, result |-> "skipped"]}
        ELSE {[out |-> e.out, odirs |-> mk.odirs, result |-> e.result] :
                e \in Engine(o, in_file, out_file)}
        : mk \in Makedirs(ds, Dirname(out_file))}

-----------------------------------------------------------------------------
(* The input trees and the arguments the model draws *)

M02 == <<"-", "0", "2">>
M03 == <<"-", "0", "3">>

Frags == {Y2020, Y2020 \o M02, M03, PARQUET, CSV}

RECURSIVE Stems(_)
Stems(n) ==
    IF n = 0 THEN {<<>>}
    ELSE Stems(n - 1) \cup {s \o f : s \in Stems(n - 1), f \in Frags}

\* File names: a stem of fragments and the extension ".parquet", and two names
\* that do not end with it.
Names ==
    {s \o PARQUET : s \in Stems(MaxStemFrags)}
        \cup {Y2020 \o M02 \o CSV, PARQUET \o CSV}

\* Directories of the input tree, relative to input_root: the root and "2020".
Dirs == {<<>>, <<Y2020>>}

Files == [dir : Dirs, name : Names]

\* os.walk is top-down: the root's files come before the subdirectory's; the
\* order within a directory is the operating system's.
Walks ==
    {w \in UNION {[1..n -> Files] : n \in 0..MaxFiles} :
        /\ \A i, j \in DOMAIN w : i < j => w[i] # w[j]
        /\ \A i, j \in DOMAIN w : i < j => Len(w[i].dir) <= Len(w[j].dir)}

Years == {None, Y2020, Y2019}
Months == {None, <<"2">>, <<"0", "2">>, <<"3">>, <<"1", "2">>}

DirPath(f) == INPUT_ROOT \o f.dir
InFile(f) == Join(DirPath(f), <<f.name>>)
OutOf(f) == OutFile(INPUT_ROOT, OUTPUT_ROOT, DirPath(f), f.name)

NoPrev == [valid |-> FALSE, year |-> None, month |-> None, pc |-> "idle",
           out |-> <<>>]

\* No call of process_all_parquet yet, on the input tree w and an empty
\* output tree.
ConvInit(w) ==
    /\ walk = w
    /\ year = None
    /\ month = None
    /\ pc = "idle"
    /\ pos = 1
    /\ run = 0
    /\ out = <<>>
    /\ odirs = {}
    /\ log = <<>>
    /\ prev = NoPrev

\* No call of filesystem_data_paths yet.
PathIdle ==
    /\ dataset = <<>>
    /\ tier = 1
    /\ paths = <<>>
    /\ fsdirs = {}
    /\ warns = <<>>
    /\ fpc = "idle"

\* No call of a diagnostics function yet.
DiagIdle ==
    /\ env = <<>>
    /\ report = <<>>
    /\ summary = <<>>
    /\ dpc = "idle"

Init ==
    /\ \E w \in Walks : ConvInit(w)
    /\ PathIdle
    /\ DiagIdle
    /\ platform = "Linux"

\* A call of process_all_parquet(INPUT_ROOT, OUTPUT_ROOT, y, m) begins.
StartRun(y, m) ==
    /\ pc # "walking"
    /\ run < MaxRuns
    /\ prev' = IF run = 0 THEN NoPrev
               ELSE [valid |-> TRUE, year |-> year, month |-> month,
                     pc |-> pc, out |-> out]
    /\ run' = run + 1
    /\ year' = y
    /\ month' = m
    /\ pc' = "walking"
    /\ pos' = 1
    /\ log' = <<>>
    /\ UNCHANGED <<walk, out, odirs>>
    /\ UNCHANGED <<pathVars, diagVars, platform>>

\* One iteration of the loop over the walk: a file that fails a filter is
\* passed over.
Skip ==
    /\ pc = "walking"
    /\ pos <= Len(walk)
    /\ ~FilterPass(walk[pos].name, year, month)
    /\ pos' = pos + 1
    /\ UNCHANGED <<walk, year, month, pc, run, out, odirs, log, prev>>
    /\ UNCHANGED <<pathVars, diagVars, platform>>

\* One iteration of the loop over the walk: a file that passes the filters is
\* handed to convert_parquet_to_csv; an exception it lets through ends the run.
Visit ==
    /\ pc = "walking"
    /\ pos <= Len(walk)
    /\ FilterPass(walk[pos].name, year, month)
    /\ \E r \in Convert(out, odirs, InFile(walk[pos]), OutOf(walk[pos])) :
        /\ out' = r.out
        /\ odirs' = r.odirs
        /\ log' = Append(log, [pos |-> pos, outp |-> OutOf(walk[pos]),
                               result |-> r.result])
        /\ pc' = IF r.result = "raised" THEN "aborted" ELSE "walking"
        /\ pos' = IF r.result = "raised" THEN pos ELSE pos + 1
    /\ UNCHANGED <<walk, year, month, run, prev>>
    /\ UNCHANGED <<pathVars, diagVars, platform>>

\* The walk is exhausted: process_all_parquet returns.
Finish ==
    /\ pc = "walking"
    /\ pos > Len(walk)
    /\ pc' = "done"
    /\ UNCHANGED <<walk, year, month, pos, run, out, odirs, log, prev>>
    /\ UNCHANGED <<pathVars, diagVars, platform>>

Next ==
    \/ \E y \in Years, m \in Months : StartRun(y, m)
    \/ Skip
    \/ Visit
    \/ Finish

Spec == Init /\ [][Next]_vars

-----------------------------------------------------------------------------
(* Properties of the converter *)

\* The loop has handed file i of the walk to convert_parquet_to_csv in this run.
Attempted(i) == \E j \in DOMAIN log : log[j].pos = i

\* The current run repeats the previous one: same tree, same filters.
SameFilters == prev.valid /\ prev.year = year /\ prev.month = month

\* C1 (as claimed): a second run with the same filters, after a first run that
\* returned, skips every file it handles, never invokes the engine and leaves
\* the set and the contents of the output files as the first run left them.
C1_SecondRunChangesNothing ==
    (SameFilters /\ prev.pc = "done") =>
        /\ out = prev.out
        /\ \A j \in DOMAIN log : log[j].result = "skipped"

\* C1 (amended): in a second run with the same filters, every output file the
\* first run left is still there with the same content, and every call for a
\* path the first run left a file at is skipped without invoking the engine;
\* the engine runs only for paths the first run left without a file.
C1_SecondRunKeepsOutputs ==
    SameFilters =>
        /\ \A p \in DOMAIN prev.out : p \in DOMAIN out /\ out[p] = prev.out[p]
        /\ \A j \in DOMAIN log :
              log[j].outp \in DOMAIN prev.out => log[j].result = "skipped"

\* A second run with the same filters has returned, having skipped the file
\* the first run converted and converted the file the first run failed on.
C1_Witness ==
    /\ SameFilters
    /\ pc = "done"
    /\ \E j \in DOMAIN log :
          log[j].result = "skipped" /\ log[j].outp \in DOMAIN prev.out
    /\ \E j \in DOMAIN log :
          log[j].result = "done" /\ log[j].outp \notin DOMAIN prev.out

\* C2: once an output file exists, no step removes or modifies it, whatever
\* its content, and a call of convert_parquet_to_csv for its path, in this run
\* or a later one, ends "skipped": the engine is not invoked.
C2_ExistingOutputKept ==
    [][/\ \A p \in DOMAIN out : p \in DOMAIN out' /\ out'[p] = out[p]
       /\ (Len(log') = Len(log) + 1 /\ log'[Len(log')].outp \in DOMAIN out)
            => log'[Len(log')].result = "skipped"]_vars

\* A call has skipped a path that holds the truncated output of a failed
\* conversion.
C2_Witness ==
    \E j \in DOMAIN log :
        /\ log[j].result = "skipped"
        /\ out[log[j].outp].kind = "partial"

\* C3 (as claimed): when a run has ended, every file that passes the filters
\* has had its conversion attempt, whatever went wrong for the other files.
C3_EveryPassingFileAttempted ==
    pc \in {"done", "aborted"} =>
        \A i \in DOMAIN walk :
            FilterPass(walk[i].name, year, month) => Attempted(i)

\* The file name with its final ".parquet" replaced by ".csv"
SiblingName(fname) ==
    SubSeq(fname, 1, Len(fname) - Len(PARQUET)) \o CSV

\* C4 (as claimed): the output path of every file handed to the conversion is
\* output_root, the file's directory relative to input_root, and the file name
\* with only its final ".parquet" replaced by ".csv".
C4_OutputPathMirrorsInput ==
    \A j \in DOMAIN log :
        Normpath(log[j].outp) =
            OUTPUT_ROOT \o walk[log[j].pos].dir
                \o <<SiblingName(walk[log[j].pos].name)>>

\* The month token the claim names for each month argument
TokenOf(m) ==
    CASE m = <<"2">> -> <<"-", "0", "2">>
      [] m = <<"0", "2">> -> <<"-", "0", "2">>
      [] m = <<"3">> -> <<"-", "0", "3">>
      [] m = <<"1", "2">> -> <<"-", "1", "2">>

YearPasses(fname) == year = None \/ Contains(fname, year)
MonthPasses(fname) == month = None \/ Contains(fname, TokenOf(month))

\* A file is attempted only if it is selected, and once the loop is past a
\* selected file it has been attempted.
AttemptedIffSelected ==
    \A i \in DOMAIN walk :
        LET selected == /\ EndsWith(walk[i].name, PARQUET)
                        /\ YearPasses(walk[i].name)
                        /\ MonthPasses(walk[i].name)
        IN  /\ Attempted(i) => selected
            /\ (i < pos /\ selected) => Attempted(i)

\* C5: with a year filter given, a ".parquet" file is handed to the conversion
\* if and only if its name (not its directory) contains the year and the month
\* filter, if any, passes.
C5_YearFilter ==
    (pc # "idle" /\ year # None) => AttemptedIffSelected

\* A run for year 2020 has returned, having converted a file named with 2020
\* and passed over a ".parquet" file of the directory 2020 named without it.
C5_Witness ==
    /\ pc = "done"
    /\ year = Y2020
    /\ \E i, k \in DOMAIN walk :
        /\ Attempted(i) /\ Contains(walk[i].name, Y2020)
        /\ ~Attempted(k) /\ EndsWith(walk[k].name, PARQUET)
        /\ walk[k].dir = <<Y2020>> /\ ~Contains(walk[k].name, Y2020)

\* C6: with a month filter given, a ".parquet" file is handed to the
\* conversion if and only if its name contains "-" and the month as two
\* zero-padded digits and the year filter, if any, passes; "2" and "02"
\* select the same files.
C6_MonthFilter ==
    /\ (pc # "idle" /\ month # None) => AttemptedIffSelected
    /\ \A i \in DOMAIN walk :
          FilterPass(walk[i].name, year, <<"2">>)
              = FilterPass(walk[i].name, year, <<"0", "2">>)

\* A run for month "2" has returned, having converted a file named with "-02"
\* and passed over a ".parquet" file named with "-03".
C6_Witness ==
    /\ pc = "done"
    /\ month = <<"2">>
    /\ \E i, k \in DOMAIN walk :
        /\ Attempted(i) /\ Contains(walk[i].name, M02)
        /\ ~Attempted(k) /\ EndsWith(walk[k].name, PARQUET)
        /\ Contains(walk[k].name, M03)

-----------------------------------------------------------------------------
(* utils/filesystem.py *)

Platforms == {"Windows", "Linux", "Darwin", "Other"}

tiers == <<"hot", "cold">>

\* roots[t]: drive letters on Windows, /hotdata and /colddata elsewhere
Roots(sys, t) ==
    IF sys = "Windows"
    THEN IF t = "hot" THEN <<<<"D:">>>> ELSE <<<<"E:">>>>
    ELSE <<<<t, "data">>>>

\* path = os.path.join(base, dataset) if dataset else base
TierPath(sys, t, ds) == IF ds # <<>> THEN Join(Roots(sys, t), ds) ELSE Roots(sys, t)

\* os.makedirs(path, exist_ok=True) on a tier path: nothing to do when the
\* directory is there; otherwise it is created, or the operating system
\* refuses with a permission error, or with another error (no such drive,
\* read-only file system, a file in the way).
TierMakedirs(dirs, path) ==
    IF path \in dirs
    THEN {[fsdirs |-> dirs, exc |-> "none"]}
    ELSE {[fsdirs |-> dirs \cup {path}, exc |-> "none"],
          [fsdirs |-> dirs, exc |-> "PermissionError"],
          [fsdirs |-> dirs, exc |-> "OSError"]}

\* The except clause around makedirs: the exceptions it handles
Caught(exc) == exc = "PermissionError"

DatasetNames == {<<>>, <<<<"nyc_tlc">>>>, <<<<"a">>, <<"b">>>>}

\* A call of filesystem_data_paths(ds) is about to begin on a host where the
\* tier directories of dirs exist.
PathInit(sys, ds, dirs) ==
    /\ platform = sys
    /\ dataset = ds
    /\ tier = 1
    /\ paths = <<>>
    /\ fsdirs = dirs
    /\ warns = <<>>
    /\ fpc = "resolving"

\* One iteration of the loop over the tiers.
ResolveTier ==
    /\ fpc = "resolving"
    /\ tier <= Len(tiers)
    /\ LET t == tiers[tier]
           path == TierPath(platform, t, dataset)
       IN  \E mk \in TierMakedirs(fsdirs, path) :
            /\ fsdirs' = mk.fsdirs
            /\ IF mk.exc # "none" /\ ~Caught(mk.exc)
               THEN /\ fpc' = "raised"
                    /\ UNCHANGED <<tier, paths, warns>>
               ELSE /\ warns' =
                         warns
                         \o (IF mk.exc # "none"
                             THEN <<[tier |-> t, text |-> "Could not create/access"]>>
                             ELSE <<>>)
                         \o (IF path \notin mk.fsdirs
                             THEN <<[tier |-> t, text |-> "storage path not available"]>>
                             ELSE <<>>)
                    /\ paths' = (t :> path) @@ paths
                    /\ tier' = tier + 1
                    /\ fpc' = fpc
    /\ UNCHANGED <<dataset, platform, convVars, diagVars>>

\* The loop is over: filesystem_data_paths returns paths.
ReturnPaths ==
    /\ fpc = "resolving"
    /\ tier > Len(tiers)
    /\ fpc' = "returned"
    /\ UNCHANGED <<dataset, tier, paths, fsdirs, warns, platform, convVars,
                   diagVars>>

InitPaths ==
    /\ \E sys \in Platforms, ds \in DatasetNames :
        \E dirs \in SUBSET {TierPath(sys, tiers[i], ds) : i \in 1..Len(tiers)} :
            PathInit(sys, ds, dirs)
    /\ ConvInit(<<>>)
    /\ DiagIdle

NextPaths == ResolveTier \/ ReturnPaths

SpecPaths == InitPaths /\ [][NextPaths]_vars

\* C7 (as claimed): every call of filesystem_data_paths returns a mapping with
\* exactly the keys "hot" and "cold", each mapped to its tier root joined with
\* the dataset name, whatever failure the creation of a tier directory met,
\* and each such failure is reported as a warning.
C7_BothTiersResolved ==
    /\ fpc # "raised"
    /\ fpc = "returned" =>
        /\ DOMAIN paths = {"hot", "cold"}
        /\ \A t \in DOMAIN paths : paths[t] = Roots(platform, t) \o dataset
        /\ \A t \in DOMAIN paths :
              paths[t] \notin fsdirs => \E i \in DOMAIN warns : warns[i].tier = t

-----------------------------------------------------------------------------
(* utils/sysinfo.py: the collectors *)

\* What a collector hands its caller: a value, or an exception.
Ret(v) == [raised |-> FALSE, value |-> v]
Raise == [raised |-> TRUE]

\* An optional number: Python's None, or the number
NoneNum == <<>>
Num(n) == <<n>>

KB_PER_GIB == 1048576
RAM_INCREMENT == 4

\* math.ceil(n / d) and round(n / d) (half to even) for integers n >= 0, d > 0
Ceil(n, d) == (n + d - 1) \div d
Round(n, d) ==
    LET q == n \div d
        r == n % d
    IN  IF 2 * r < d THEN q
        ELSE IF 2 * r > d THEN q + 1
        ELSE IF q % 2 = 0 THEN q ELSE q + 1

\* AdvertisedRam rounding to the multiple of 4 above, also from a multiple of 4
AdvertisedRamAbove(kb) == ((kb \div (RAM_INCREMENT * KB_PER_GIB)) + 1) * RAM_INCREMENT

\* gib = kb / 1024**2; int(math.ceil(gib / 4.0)) * 4. The divisions are by
\* powers of two, exact in floating point for every kb below 2^53.
AdvertisedRam(kb) == Ceil(kb, RAM_INCREMENT * KB_PER_GIB) * RAM_INCREMENT

\* round(gib, 2), in hundredths of a GiB
UsableRam(kb) == Round(kb * 100, KB_PER_GIB)

\* get_system_model()
GetSystemModel(sys, e) ==
    IF sys = "Windows" THEN
        IF e.ps_product = "fail" THEN Ret("Unknown System")
        ELSE IF e.ps_product = "noversion" THEN Ret("vendor name")
        ELSE Ret("vendor version")
    ELSE IF sys = "Linux" THEN
        \* only FileNotFoundError is handled at the open(); any other error
        \* reaches the function's own handler
        IF e.dmi_vendor = "denied" \/ e.dmi_product = "denied"
        THEN Ret("Unknown System")
        ELSE IF e.dmi_vendor = "ok" /\ e.dmi_product = "ok" THEN Ret("vendor model")
        ELSE IF e.dmi_product = "ok" THEN Ret("model")
        ELSE IF e.dmi_vendor = "ok" THEN Ret("vendor")
        ELSE Ret("node")
    ELSE IF sys = "Darwin" THEN
        IF e.sp_hardware = "ok" THEN Ret("Apple model (id)") ELSE Ret("node")
    ELSE Ret("node")

\* CPU names the sources of the model give
I7_8700_RAW ==
    <<"I", "n", "t", "e", "l", "(", "R", ")", " ", "C", "o", "r", "e", "(",
      "T", "M", ")", " ", "i", "7", "-", "8", "7", "0", "0", " ", "C", "P",
      "U", " ", "@", " ", "3", ".", "2", "0", "G", "H", "z">>
ARM_RAW ==
    <<"A", "R", "M", "v", "8", " ", "P", "r", "o", "c", "e", "s", "s", "o",
      "r">>
MACHINE ==
    <<"x", "8", "6", "_", "6", "4">>
UNKNOWN_CPU ==
    <<"U", "n", "k", "n", "o", "w", "n", " ", "C", "P", "U">>
INTEL_CORE ==
    <<"I", "n", "t", "e", "l", " ", "C", "o", "r", "e", " ">>

\* The literal alternatives of \(R\)|\(TM\)|CPU|@.*GHz, case folded, in order
TrademarkAlternatives == <<<<"(", "r", ")">>, <<"(", "t", "m", ")">>, <<"c", "p", "u">>>>
GHZ == <<"g", "h", "z">>

\* Where the match of \(R\)|\(TM\)|CPU|@.*GHz that starts at s[i] ends
\* (0: no match there). The greedy .* runs to the last GHz of the line.
NoiseMatchEnd(s, i) ==
    LET f == LowerStr(s)
        lits == {k \in DOMAIN TrademarkAlternatives : MatchAt(f, TrademarkAlternatives[k], i)}
        ghz == {j \in (i + 1)..Len(s) :
                    /\ MatchAt(f, GHZ, j)
                    /\ \A k \in (i + 1)..(j - 1) : s[k] # "\n"}
    IN  IF lits # {}
        THEN i + Len(TrademarkAlternatives[CHOOSE k \in lits : \A l \in lits : k <= l]) - 1
        ELSE IF s[i] = "@" /\ ghz # {}
        THEN (CHOOSE j \in ghz : \A l \in ghz : j >= l) + 2
        ELSE 0

\* re.sub(r"\(R\)|\(TM\)|CPU|@.*GHz", "", s, flags=re.IGNORECASE), from s[i] on
RECURSIVE RemoveNoiseFrom(_, _)
RemoveNoiseFrom(s, i) ==
    IF i > Len(s) THEN <<>>
    ELSE IF NoiseMatchEnd(s, i) # 0 THEN RemoveNoiseFrom(s, NoiseMatchEnd(s, i) + 1)
    ELSE <<s[i]>> \o RemoveNoiseFrom(s, i + 1)

\* re.sub(r"\s+", " ", s)
RECURSIVE CollapseSpaces(_)
CollapseSpaces(s) ==
    IF s = <<>> THEN <<>>
    ELSE IF IsSpace(Head(s))
    THEN <<" ">> \o CollapseSpaces(LStrip(s))
    ELSE <<Head(s)>> \o CollapseSpaces(Tail(s))

IsDigit(c) == c \in Range(Digits)

\* The number of digits s holds from s[i] on, up to max
RECURSIVE DigitRun(_, _, _)
DigitRun(s, i, max) ==
    IF max = 0 \/ i > Len(s) \/ ~IsDigit(s[i]) THEN 0
    ELSE 1 + DigitRun(s, i + 1, max - 1)

MIN_MODEL_DIGITS == 3
MAX_MODEL_DIGITS == 5

\* re.search(r"(i3|i5|i7|i9)-(\d{3,5})", s) matches at s[i]
CoreMatchAt(s, i) ==
    /\ i + 2 <= Len(s)
    /\ s[i] = "i"
    /\ s[i + 1] \in {"3", "5", "7", "9"}
    /\ s[i + 2] = "-"
    /\ DigitRun(s, i + 3, MAX_MODEL_DIGITS) >= MIN_MODEL_DIGITS

\* str(int(digits)) of a nonempty digit string
StrInt(digits) == StrOf(IntOf(digits))

\* make_friendly_cpu_name(raw_name)
MakeFriendlyCpuName(raw_name) ==
    IF ~Truthy(raw_name) THEN UNKNOWN_CPU
    ELSE
        LET name == Strip(CollapseSpaces(RemoveNoiseFrom(raw_name, 1)))
            starts == {i \in DOMAIN name : CoreMatchAt(name, i)}
        IN  IF starts # {}
            THEN LET i == CHOOSE k \in starts : \A l \in starts : k <= l
                     family == SubSeq(name, i, i + 1)
                     n == DigitRun(name, i + 3, MAX_MODEL_DIGITS)
                     model_num == StrInt(SubSeq(name, i + 3, i + 2 + n))
                 IN  INTEL_CORE \o family \o <<"-">> \o model_num
            ELSE name

\* get_cpu_info()
GetCpuInfo(sys, e) ==
    LET fromSource ==
            IF sys = "Windows" THEN
                IF e.ps_cpu = "ok" THEN I7_8700_RAW
                ELSE IF e.wmic_cpu = "ok" THEN I7_8700_RAW
                ELSE <<>>
            ELSE IF sys = "Linux" THEN
                IF e.cpuinfo = "ok" THEN I7_8700_RAW
                ELSE IF e.cpuinfo = "other" THEN ARM_RAW
                ELSE <<>>
            ELSE <<>>
        raw_name == IF fromSource = <<>> THEN MACHINE ELSE fromSource
    IN  Ret([raw |-> raw_name,
             friendly |-> MakeFriendlyCpuName(raw_name),
             cores |-> 6,
             threads |-> 12,
             speed |-> IF e.cpu_freq = "ok" THEN "min/max/current" ELSE "Unavailable"])

\* The record get_ram_info starts from. DIMM sizes are in hundredths of a GiB,
\* the advertised total in GB.
RamDefaults ==
    [advertised |-> NoneNum, dimm_sizes |-> <<>>, speeds |-> <<>>]

\* get_ram_info() on Windows
RamWindows(e) ==
    IF e.ps_memory = "ok"
    THEN [advertised |-> Num(16), dimm_sizes |-> <<800, 800>>, speeds |-> <<2400>>,
          memory_type |-> "DDR4"]
    ELSE [error |-> "Windows query failed"] @@ RamDefaults

\* RamLinux asking decode-dimms first and reading /proc/meminfo only when it
\* failed
RamLinuxToolFirst(e) ==
    LET r0 == RamDefaults @@ [is_likely_ddr |-> "None"]
        r1 == IF e.meminfo = "ok"
              THEN [usable |-> UsableRam(e.memtotal_kb)]
                    @@ [r0 EXCEPT !.advertised = Num(AdvertisedRam(e.memtotal_kb)),
                                  !.dimm_sizes = <<UsableRam(e.memtotal_kb)>>]
              ELSE IF e.meminfo = "fail"
              THEN [error |-> "/proc/meminfo query failed"] @@ r0
              ELSE r0
    IN  IF e.decode_dimms = "DDR4-2400"
        THEN [memory_type |-> "DDR4"]
                @@ [r0 EXCEPT !.is_likely_ddr = "True", !.speeds = <<2400>>]
        ELSE IF e.decode_dimms = "notype"
        THEN [r0 EXCEPT !.is_likely_ddr = "True"]
        ELSE IF e.cpuinfo = "ok"
        THEN [memory_type |-> "DDR"] @@ [r1 EXCEPT !.is_likely_ddr = "True"]
        ELSE [memory_type |-> ""] @@ [r1 EXCEPT !.is_likely_ddr = "False"]

\* get_ram_info() on Linux: /proc/meminfo, then decode-dimms, then /proc/cpuinfo
RamLinux(e) ==
    LET r0 == RamDefaults @@ [is_likely_ddr |-> "None"]
        r1 == IF e.meminfo = "ok"
              THEN [usable |-> UsableRam(e.memtotal_kb)]
                    @@ [r0 EXCEPT !.advertised = Num(AdvertisedRam(e.memtotal_kb)),
                                  !.dimm_sizes = <<UsableRam(e.memtotal_kb)>>]
              ELSE IF e.meminfo = "fail"
              THEN [error |-> "/proc/meminfo query failed"] @@ r0
              ELSE r0
    IN  IF e.decode_dimms = "DDR4-2400"
        THEN [memory_type |-> "DDR4"]
                @@ [r1 EXCEPT !.is_likely_ddr = "True", !.speeds = <<2400>>]
        ELSE IF e.decode_dimms = "notype"
        THEN [r1 EXCEPT !.is_likely_ddr = "True"]
        ELSE IF e.cpuinfo = "ok"
        THEN [memory_type |-> "DDR"] @@ [r1 EXCEPT !.is_likely_ddr = "True"]
        ELSE [memory_type |-> ""] @@ [r1 EXCEPT !.is_likely_ddr = "False"]

\* get_ram_info() on macOS: after both queries the speeds are searched in the
\* undefined name output, and the NameError lands in the handler.
RamDarwin(e) ==
    IF e.sysctl_memsize # "ok"
    THEN [error |-> "macOS query failed"] @@ RamDefaults
    ELSE IF e.sp_memory # "ok"
    THEN [error |-> "macOS query failed"]
            @@ [RamDefaults EXCEPT !.advertised = Num(16)]
    ELSE [error |-> "macOS query failed", memory_type |-> "DDR3"]
            @@ [RamDefaults EXCEPT !.advertised = Num(16)]

\* get_ram_info()
GetRamInfo(sys, e) ==
    IF sys = "Windows" THEN Ret(RamWindows(e))
    ELSE IF sys = "Linux" THEN Ret(RamLinux(e))
    ELSE IF sys = "Darwin" THEN Ret(RamDarwin(e))
    ELSE Ret([error |-> "Unsupported OS"] @@ RamDefaults)

\* The record of the one block device of the host, on Linux
LinuxDrive(e) ==
    LET bus == IF e.tran = "null" THEN "UNKNOWN" ELSE e.tran
    IN  IF e.rota = "fail"
        THEN [error |-> "rotational"]
        ELSE [device |-> "/dev/sda", model |-> "model", size |-> "500GB",
              bus_type |-> bus,
              media_type |-> IF bus \in {"SATA", "NVME"}
                             THEN IF e.rota = "0" THEN "SSD" ELSE "HDD"
                             ELSE bus]

\* get_storage_info(): on Linux nothing handles a failing lsblk or output
\* that json.loads or the ['blockdevices'] lookup rejects
GetStorageInfo(sys, e) ==
    IF sys = "Windows" THEN
        IF e.ps_disk = "ok"
        THEN Ret(<<[model |-> "model", size |-> "500GB", bus_type |-> "NVME",
                    media_type |-> "SSD"]>>)
        ELSE Ret(<<[error |-> "Get-PhysicalDisk"]>>)
    ELSE IF sys = "Linux" THEN
        IF e.lsblk # "ok" THEN Raise ELSE Ret(<<LinuxDrive(e)>>)
    ELSE IF sys = "Darwin" THEN
        IF e.diskutil_list # "ok" THEN Ret(<<[error |-> "diskutil list"]>>)
        ELSE IF e.diskutil_info # "ok" THEN Ret(<<>>)
        ELSE Ret(<<[device |-> "/dev/disk0", model |-> "model", size |-> "500GB",
                    media_type |-> "SSD"]>>)
    ELSE Ret(<<>>)

\* get_os_info()
GetOsInfo(sys, e) ==
    IF sys = "Linux" THEN
        IF e.os_release = "ok" THEN Ret("Ubuntu 22.04") ELSE Ret("Linux release")
    ELSE IF sys = "Darwin" THEN
        IF e.sw_vers = "ok" THEN Ret("macOS 14 (Darwin release)")
        ELSE Ret("macOS (Darwin release) - version lookup failed")
    ELSE IF sys = "Windows" THEN
        IF e.ps_os = "ok" THEN Ret("Microsoft Windows 11") ELSE Ret("Windows release")
    ELSE Ret("Other release")

\* get_gpu_info()
GetGpuInfo(sys, e) ==
    IF e.gputil = "ok"
    THEN Ret(<<[gpu |-> "GeForce 8GB", name |-> "GeForce", memory |-> "8GB"]>>)
    ELSE IF e.gputil = "partial"
    \* the exception comes while the second GPU of the list is read
    THEN Ret(<<[gpu |-> "GeForce 8GB", name |-> "GeForce", memory |-> "8GB"],
               [error |-> "GPUtil"]>>)
    ELSE Ret(<<[error |-> "GPUtil"]>>)

-----------------------------------------------------------------------------
(* utils/sysinfo.py: get_system_diagnostics *)

Categories == {"System", "CPU", "RAM", "Storage", "OS", "GPU"}

\* The value of one entry of the dict get_system_diagnostics builds
Collector(c, sys, e) ==
    CASE c = "System" -> GetSystemModel(sys, e)
      [] c = "CPU" -> GetCpuInfo(sys, e)
      [] c = "RAM" -> GetRamInfo(sys, e)
      [] c = "Storage" -> GetStorageInfo(sys, e)
      [] c = "OS" -> GetOsInfo(sys, e)
      [] c = "GPU" -> IF e.gpu_import = "ok" THEN GetGpuInfo(sys, e) ELSE Ret(<<>>)

\* The external sources each platform's collectors read
CommonSources == {"cpu_freq", "gpu_import", "gputil"}

SourcesOf(sys) ==
    CommonSources \cup
    (CASE sys = "Windows" ->
            {"ps_product", "ps_cpu", "wmic_cpu", "ps_memory", "ps_disk", "ps_os"}
       [] sys = "Linux" ->
            {"dmi_vendor", "dmi_product", "cpuinfo", "meminfo", "decode_dimms",
             "lsblk", "tran", "rota", "os_release"}
       [] sys = "Darwin" ->
            {"sp_hardware", "sysctl_memsize", "sp_memory", "diskutil_list",
             "diskutil_info", "sw_vers"}
       [] OTHER -> {})

\* The category whose collector reads the source first
CategoryOf(s) ==
    CASE s \in {"ps_product", "dmi_vendor", "dmi_product", "sp_hardware"} -> "System"
      [] s \in {"ps_cpu", "wmic_cpu", "cpuinfo", "cpu_freq"} -> "CPU"
      [] s \in {"ps_memory", "meminfo", "decode_dimms", "sysctl_memsize",
                "sp_memory"} -> "RAM"
      [] s \in {"ps_disk", "lsblk", "tran", "rota", "diskutil_list",
                "diskutil_info"} -> "Storage"
      [] s \in {"ps_os", "os_release", "sw_vers"} -> "OS"
      [] s \in {"gpu_import", "gputil"} -> "GPU"

\* What a source answers when it works
Successes(s) ==
    CASE s = "cpuinfo" -> {"ok", "other"}
      [] s = "decode_dimms" -> {"DDR4-2400", "notype"}
      [] s = "tran" -> {"SATA", "NVME", "USB"}
      [] s = "rota" -> {"0", "1"}
      [] OTHER -> {"ok"}

\* What a source answers when it fails: the command or the file is missing,
\* is refused, exits non-zero, or answers what cannot be parsed
Failures(s) ==
    CASE s \in {"ps_memory", "lsblk"} -> {"fail", "malformed"}
      [] s = "ps_product" -> {"fail", "noversion"}
      [] s = "ps_cpu" -> {"fail", "empty"}
      [] s = "dmi_vendor" -> {"missing", "denied"}
      [] s = "dmi_product" -> {"missing"}
      [] s = "meminfo" -> {"fail", "nototal"}
      [] s = "cpu_freq" -> {"none"}
      [] s = "gpu_import" -> {"missing"}
      [] s = "tran" -> {"null"}
      [] s = "gputil" -> {"fail", "partial"}
      [] OTHER -> {"fail"}

\* A host where every source works
Nominal ==
    [ps_product |-> "ok", ps_cpu |-> "ok", wmic_cpu |-> "ok", ps_memory |-> "ok",
     ps_disk |-> "ok", ps_os |-> "ok", dmi_vendor |-> "ok", dmi_product |-> "ok",
     cpuinfo |-> "ok", meminfo |-> "ok", decode_dimms |-> "DDR4-2400",
     lsblk |-> "ok", tran |-> "SATA", rota |-> "0", os_release |-> "ok",
     sp_hardware |-> "ok", sysctl_memsize |-> "ok", sp_memory |-> "ok",
     diskutil_list |-> "ok", diskutil_info |-> "ok", sw_vers |-> "ok",
     cpu_freq |-> "ok", gpu_import |-> "ok", gputil |-> "ok",
     memtotal_kb |-> 16302960, requirements |-> "ok"]

\* The answers a host may give in place of the nominal ones
Changes(sys) ==
    UNION {{<<s, v>> : v \in Successes(s) \cup Failures(s)} : s \in SourcesOf(sys)}

\* The hosts that differ from the nominal one in at most n sources
RECURSIVE Envs(_, _)
Envs(sys, n) ==
    IF n = 0 THEN {Nominal}
    ELSE Envs(sys, n - 1) \cup
         {[e EXCEPT ![sv[1]] = sv[2]] : e \in Envs(sys, n - 1), sv \in Changes(sys)}

\* A call of get_system_diagnostics() is about to begin on the host e.
DiagInit(sys, e) ==
    /\ platform = sys
    /\ env = e
    /\ report = <<>>
    /\ summary = <<>>
    /\ dpc = "System"

\* One entry of the dict: the collector of category c runs, and its value is
\* stored or its exception ends get_system_diagnostics.
Collect(c, next) ==
    /\ dpc = c
    /\ LET r == Collector(c, platform, env)
       IN  IF r.raised
           THEN /\ dpc' = "raised"
                /\ report' = report
           ELSE /\ dpc' = next
                /\ report' = (c :> r.value) @@ report
    /\ UNCHANGED <<env, summary, platform, convVars, pathVars>>

\* The dict is complete: get_system_diagnostics returns it.
ReturnDiagnostics ==
    /\ dpc = "built"
    /\ dpc' = "returned"
    /\ UNCHANGED <<env, report, summary, platform, convVars, pathVars>>

InitDiag ==
    /\ \E sys \in Platforms : \E e \in Envs(sys, MaxFaults) : DiagInit(sys, e)
    /\ ConvInit(<<>>)
    /\ PathIdle

NextDiag ==
    \/ Collect("System", "CPU")
    \/ Collect("CPU", "RAM")
    \/ Collect("RAM", "Storage")
    \/ Collect("Storage", "OS")
    \/ Collect("OS", "GPU")
    \/ Collect("GPU", "built")
    \/ ReturnDiagnostics

SpecDiag == InitDiag /\ [][NextDiag]_vars

\* A source of the host failed.
Failing(s) == s \in SourcesOf(platform) /\ env[s] \in Failures(s)

\* C8 (as claimed): no collector raises to its caller, whatever the platform
\* and whichever sources fail, so get_system_diagnostics always returns.
C8_NoCollectorRaises == dpc # "raised"

\* C9 (as claimed): when a source behind one category fails, the report still
\* has all six keys, and the other five categories hold what they hold on the
\* host where that source works.
C9_FailureTouchesOneCategory ==
    dpc \in {"returned", "raised"} =>
        \A s \in SourcesOf(platform) :
            Failing(s) =>
                /\ dpc = "returned"
                /\ DOMAIN report = Categories
                /\ \A v \in Successes(s), c \in Categories \ {CategoryOf(s)} :
                      LET r == Collector(c, platform, [env EXCEPT ![s] = v])
                      IN  ~r.raised /\ report[c] = r.value

-----------------------------------------------------------------------------
(* utils/sysinfo.py: get_ram_info on Linux *)

\* MemTotal values around the multiples of the 4 GiB increment, and halfway
\* between them
KbValues ==
    {k \in {q * RAM_INCREMENT * KB_PER_GIB + d :
                q \in 0..MaxQuads, d \in (-MaxDelta)..MaxDelta} : k >= 0}
        \cup {q * RAM_INCREMENT * KB_PER_GIB + 2 * KB_PER_GIB : q \in 0..MaxQuads}
        \cup {Nominal.memtotal_kb}

\* A call of get_ram_info() is about to begin.
InitRam ==
    /\ platform = "Linux"
    /\ \E kb \in KbValues, dd \in Successes("decode_dimms") \cup Failures("decode_dimms"),
          ci \in Successes("cpuinfo") \cup Failures("cpuinfo"),
          mi \in Successes("meminfo") \cup Failures("meminfo") :
            env = [Nominal EXCEPT !.memtotal_kb = kb, !.decode_dimms = dd,
                                  !.cpuinfo = ci, !.meminfo = mi]
    /\ report = <<>>
    /\ summary = <<>>
    /\ dpc = "get_ram_info"
    /\ ConvInit(<<>>)
    /\ PathIdle

\* get_ram_info() runs and returns its record.
CallGetRamInfo ==
    /\ dpc = "get_ram_info"
    /\ report' = ("RAM" :> GetRamInfo(platform, env).value)
    /\ dpc' = "returned"
    /\ UNCHANGED <<env, summary, platform, convVars, pathVars>>

NextRam == CallGetRamInfo

SpecRam == InitRam /\ [][NextRam]_vars

\* C10: on Linux, with MemTotal of k kB, "Advertised RAM (GB)" is the smallest
\* multiple of 4 that is at least k / 1024^2: a multiple of 4, not below the
\* usable memory, and less than 4 above it.
C10_AdvertisedRamRoundsUp ==
    (dpc = "returned" /\ platform = "Linux" /\ env.meminfo = "ok") =>
        LET a == report["RAM"].advertised[1]
            k == env.memtotal_kb
        IN  /\ a % 4 = 0
            /\ a * 1024 * 1024 >= k
            /\ (a - 4) * 1024 * 1024 < k

\* get_ram_info has returned on a host whose MemTotal is a positive exact
\* multiple of 4 GiB, which it reports unchanged.
C10_Witness ==
    /\ dpc = "returned"
    /\ platform = "Linux"
    /\ env.meminfo = "ok"
    /\ env.memtotal_kb > 0
    /\ env.memtotal_kb % (4 * 1024 * 1024) = 0
    /\ report["RAM"].advertised = <<env.memtotal_kb \div (1024 * 1024)>>

\* The record holds the estimate made from MemTotal of /proc/meminfo.
MeminfoEstimateReported ==
    /\ env.meminfo = "ok"
    /\ report["RAM"].advertised = Num(AdvertisedRam(env.memtotal_kb))
    /\ report["RAM"].dimm_sizes = <<UsableRam(env.memtotal_kb)>>

ToolSucceeded == env.decode_dimms \in Successes("decode_dimms")

-----------------------------------------------------------------------------
(* utils/sysinfo.py: get_storage_info on Linux *)

\* The bus label of the host's block device
BusLabel == IF env.tran = "null" THEN "UNKNOWN" ELSE env.tran

\* C12 (as claimed): on Linux, a device on SATA or NVMe is reported "SSD" when
\* its rotational flag reads 0 and "HDD" when it reads 1; a device on any other
\* bus is reported with its bus label as media type, whatever the flag reads
\* and also when the flag cannot be read.
C12_MediaTypeFromBusAndFlag ==
    (platform = "Linux" /\ "Storage" \in DOMAIN report) =>
        /\ Len(report["Storage"]) = 1
        /\ LET d == report["Storage"][1]
           IN  IF BusLabel \in {"SATA", "NVME"}
               THEN /\ env.rota = "0" => d.media_type = "SSD"
                    /\ env.rota = "1" => d.media_type = "HDD"
               ELSE /\ DOMAIN d = {"device", "model", "size", "bus_type", "media_type"}
                    /\ d.media_type = BusLabel
                    /\ d.bus_type = BusLabel

-----------------------------------------------------------------------------
(* utils/sysinfo.py: get_system_model, the vendor clean-up *)

MaxSuffixes == 2

\* re.sub(r"[.,\s]+$", "", s): the leftmost match is the whole trailing run
RECURSIVE StripTrailing(_)
StripTrailing(s) ==
    IF s # <<>> /\ (s[Len(s)] \in {".", ","} \/ IsSpace(s[Len(s)]))
    THEN StripTrailing(SubSeq(s, 1, Len(s) - 1))
    ELSE s

\* The alternatives of (inc|inc\.|ltd|ltd\.|corp|co\.?)
SuffixAlternatives ==
    {<<"i", "n", "c">>, <<"i", "n", "c", ".">>, <<"l", "t", "d">>,
     <<"l", "t", "d", ".">>, <<"c", "o", "r", "p">>, <<"c", "o">>, <<"c", "o", ".">>}

\* \b(inc|inc\.|ltd|ltd\.|corp|co\.?)\b$ matches s from position i to its end
SuffixMatchAt(s, i) ==
    /\ WordBoundary(s, i)
    /\ LowerStr(SubSeq(s, i, Len(s))) \in SuffixAlternatives
    /\ WordBoundary(s, Len(s) + 1)

\* re.sub(r"\b(inc|inc\.|ltd|ltd\.|corp|co\.?)\b$", "", s, flags=re.IGNORECASE):
\* the leftmost match, which reaches the end of s, is removed
StripSuffix(s) ==
    LET starts == {i \in DOMAIN s : SuffixMatchAt(s, i)}
    IN  IF starts = {} THEN s
        ELSE SubSeq(s, 1, (CHOOSE i \in starts : \A j \in starts : i <= j) - 1)

\* The three passes over the vendor
CleanVendor(vendor) == StripTrailing(StripSuffix(StripTrailing(vendor)))

\* get_system_model() on Linux, for what the two DMI files hold (None: no file)
LinuxSystemModel(sys_vendor, product_name) ==
    LET vendor0 == IF sys_vendor = None THEN None ELSE Strip(sys_vendor)
        model == IF product_name = None THEN None ELSE Strip(product_name)
        vendor == IF Truthy(vendor0) THEN CleanVendor(Strip(vendor0)) ELSE vendor0
    IN  [vendor |-> vendor,
         result |-> IF Truthy(vendor) /\ Truthy(model) THEN vendor \o <<" ">> \o model
                    ELSE IF Truthy(model) THEN model
                    ELSE IF Truthy(vendor) THEN vendor
                    ELSE <<"n", "o", "d", "e">>]

\* What /sys/devices/virtual/dmi/id/sys_vendor may hold: a name followed by
\* up to MaxSuffixes groups of separator, token and punctuation
VendorStems == {<<"A", "c", "m", "e">>, <<"Z", "i", "n", "c">>}
SuffixSeps == {<<" ">>, <<",", " ">>, <<>>}
SuffixTokens ==
    {<<"I", "n", "c">>, <<"L", "T", "D">>, <<"C", "o", "r", "p">>, <<"C", "o">>,
     <<"A", "G">>}
SuffixPuncts == {<<>>, <<".">>, <<".", ",">>}

RECURSIVE VendorTails(_)
VendorTails(n) ==
    IF n = 0 THEN {<<>>}
    ELSE VendorTails(n - 1) \cup
         {t \o sep \o tok \o p : t \in VendorTails(n - 1), sep \in SuffixSeps,
                                 tok \in SuffixTokens, p \in SuffixPuncts}

Vendors ==
    {s \o t \o nl : s \in VendorStems, t \in VendorTails(MaxSuffixes),
                    nl \in {<<>>, <<"\n">>}}

ProductNames == {None, <<"X", "1">>}

\* A call of get_system_model() is about to begin on a Linux host.
InitVendor ==
    /\ platform = "Linux"
    /\ \E v \in Vendors \cup {None}, m \in ProductNames :
            env = [sys_vendor |-> v, product_name |-> m]
    /\ report = <<>>
    /\ summary = <<>>
    /\ dpc = "get_system_model"
    /\ ConvInit(<<>>)
    /\ PathIdle

\* get_system_model() runs and returns; the cleaned vendor is kept beside the
\* result.
CallGetSystemModel ==
    /\ dpc = "get_system_model"
    /\ report' = LinuxSystemModel(env.sys_vendor, env.product_name)
    /\ dpc' = "returned"
    /\ UNCHANGED <<env, summary, platform, convVars, pathVars>>

NextVendor == CallGetSystemModel

SpecVendor == InitVendor /\ [][NextVendor]_vars

\* The last word of s: its longest suffix of word characters
RECURSIVE LastWord(_)
LastWord(s) ==
    IF s # <<>> /\ IsWord(s[Len(s)])
    THEN LastWord(SubSeq(s, 1, Len(s) - 1)) \o <<s[Len(s)]>>
    ELSE <<>>

SuffixTokensFolded ==
    {<<"i", "n", "c">>, <<"l", "t", "d">>, <<"c", "o", "r", "p">>, <<"c", "o">>}

\* C13 (as claimed): the vendor the three passes leave ends neither with ".",
\* "," or whitespace nor with Inc, Ltd, Corp or Co (in any case) as its last
\* word, also when the raw vendor ends with several such tokens.
C13_VendorCleaned ==
    (dpc = "returned" /\ env.sys_vendor # None) =>
        LET v == report.vendor
        IN  v # <<>> =>
                /\ v[Len(v)] \notin {".", ","}
                /\ ~IsSpace(v[Len(v)])
                /\ LowerStr(LastWord(v)) \notin SuffixTokensFolded

-----------------------------------------------------------------------------
(* utils/sysinfo.py: make_friendly_cpu_name *)

MaxModelLen == 5

\* Raw CPU names: a prefix, a family, "-", a model number of 3 to MaxModelLen
\* digits, a suffix
CpuPrefixes ==
    {<<>>, <<"I", "n", "t", "e", "l", " ">>,
     <<"I", "n", "t", "e", "l", "(", "R", ")", " ", "C", "o", "r", "e", "(", "T", "M", ")", " ">>}
CpuFamilies == {<<"i", "3">>, <<"i", "7">>}
CpuSuffixes ==
    {<<>>, <<"K">>,
     <<" ", "C", "P", "U", " ", "@", " ", "3", ".", "2", "0", "G", "H", "z">>}
ModelDigits == {"0", "1", "8"}

RECURSIVE DigitStrings(_)
DigitStrings(n) ==
    IF n = 0 THEN {<<>>}
    ELSE {s \o <<d>> : s \in DigitStrings(n - 1), d \in ModelDigits}

ModelNumbers == UNION {DigitStrings(n) : n \in MIN_MODEL_DIGITS..MaxModelLen}

\* A call of make_friendly_cpu_name(raw_name) is about to begin.
InitCpu ==
    /\ platform = "Linux"
    /\ \E p \in CpuPrefixes, f \in CpuFamilies, m \in ModelNumbers, x \in CpuSuffixes :
            env = [raw_name |-> p \o f \o <<"-">> \o m \o x, family |-> f, model |-> m]
    /\ report = <<>>
    /\ summary = <<>>
    /\ dpc = "make_friendly_cpu_name"
    /\ ConvInit(<<>>)
    /\ PathIdle

\* make_friendly_cpu_name(raw_name) runs and returns.
CallMakeFriendlyCpuName ==
    /\ dpc = "make_friendly_cpu_name"
    /\ report' = [friendly |-> MakeFriendlyCpuName(env.raw_name)]
    /\ dpc' = "returned"
    /\ UNCHANGED <<env, summary, platform, convVars, pathVars>>

NextCpu == CallMakeFriendlyCpuName

SpecCpu == InitCpu /\ [][NextCpu]_vars

\* C14 (as claimed): for a raw name holding a family i3, i5, i7 or i9, "-" and
\* a model number, the friendly name is exactly "Intel Core <family>-<model>"
\* with the model number's digits as they stand in the raw name, and holds no
\* "(R)", "(TM)", "CPU" or "GHz".
C14_FriendlyIntelName ==
    dpc = "returned" =>
        /\ report.friendly = INTEL_CORE \o env.family \o <<"-">> \o env.model
        /\ \A k \in DOMAIN TrademarkAlternatives :
              ~Contains(LowerStr(report.friendly), TrademarkAlternatives[k])
        /\ ~Contains(LowerStr(report.friendly), GHZ)

-----------------------------------------------------------------------------
(* utils/sysinfo.py: make_bar *)

MaxWidth == 20
FractionBits == 3

DEFAULT_WIDTH == 20

RECURSIVE Pow2(_)
Pow2(n) == IF n = 0 THEN 1 ELSE 2 * Pow2(n - 1)

\* s * n for a str s
RECURSIVE Repeat(_, _)
Repeat(s, n) == IF n <= 0 THEN <<>> ELSE s \o Repeat(s, n - 1)

\* MakeBar truncating the product instead of rounding it
MakeBarTruncating(fraction, width) ==
    LET filled == (width * fraction.num) \div fraction.den
    IN  <<"[">> \o Repeat(<<"#">>, filled) \o Repeat(<<".">>, width - filled) \o <<"]">>

\* make_bar(fraction, width), for the float fraction.num / fraction.den with
\* fraction.den a power of two: width * fraction is then exact
MakeBar(fraction, width) ==
    LET filled == Round(width * fraction.num, fraction.den)
    IN  <<"[">> \o Repeat(<<"#">>, filled) \o Repeat(<<".">>, width - filled) \o <<"]">>

\* The fractions of 0..1 with FractionBits binary digits
Fractions == {[num |-> n, den |-> Pow2(FractionBits)] : n \in 0..Pow2(FractionBits)}

\* A call of make_bar(fraction) or make_bar(fraction, width) is about to begin.
InitBar ==
    /\ platform = "Linux"
    /\ \E f \in Fractions, w \in {NoneNum} \cup {Num(n) : n \in 0..MaxWidth} :
            env = [fraction |-> f, width |-> w]
    /\ report = <<>>
    /\ summary = <<>>
    /\ dpc = "make_bar"
    /\ ConvInit(<<>>)
    /\ PathIdle

\* make_bar runs and returns; an omitted width is the default.
CallMakeBar ==
    /\ dpc = "make_bar"
    /\ LET width == IF env.width = NoneNum THEN DEFAULT_WIDTH ELSE env.width[1]
       IN  report' = [bar |-> MakeBar(env.fraction, width), width |-> width]
    /\ dpc' = "returned"
    /\ UNCHANGED <<env, summary, platform, convVars, pathVars>>

NextBar == CallMakeBar

SpecBar == InitBar /\ [][NextBar]_vars

\* The number of "#" in s
Hashes(s) == Cardinality({i \in DOMAIN s : s[i] = "#"})

\* C15: for a width w >= 0 and a fraction f of 0..1, the bar is "[", w
\* characters and "]"; the w characters are "#" first and then only ".", and
\* the number k of "#" is w * f rounded to the nearest integer (to the even one
\* when w * f lies halfway). make_bar(0.5, 20) has 10 "#" and 10 ".";
\* make_bar(0.0) is all "." and make_bar(1.0) all "#".
C15_BarShape ==
    dpc = "returned" =>
        LET bar == report.bar
            w == report.width
            f == env.fraction
            k == Hashes(bar)
        IN  /\ Len(bar) = w + 2
            /\ bar[1] = "[" /\ bar[w + 2] = "]"
            /\ \A i \in 2..(w + 1) : bar[i] = IF i - 1 <= k THEN "#" ELSE "."
            /\ 2 * (k * f.den - w * f.num) <= f.den
            /\ 2 * (w * f.num - k * f.den) <= f.den
            /\ (2 * (k * f.den - w * f.num) \in {f.den, -f.den}) => k % 2 = 0
            /\ (2 * f.num = f.den /\ w = 20) => k = 10
            /\ (f.num = 0) => k = 0
            /\ (f.num = f.den) => k = w
            /\ (env.width = NoneNum) => w = 20

\* make_bar(0.5, 20) has returned ten "#" followed by ten ".".
C15_Witness ==
    /\ dpc = "returned"
    /\ 2 * env.fraction.num = env.fraction.den
    /\ env.width = Num(20)
    /\ report.bar = <<"[">> \o Repeat(<<"#">>, 10) \o Repeat(<<".">>, 10) \o <<"]">>

-----------------------------------------------------------------------------
(* utils/sysinfo.py: system_summary; utils/pystackinfo.py: pystack_summary *)

\* The pieces of a formatted line: literal text, a formatted value, and the
\* separator " | "
Text(s) == [kind |-> "text", value |-> s]
Field(v) == [kind |-> "field", value |-> v]
SEP == [kind |-> "sep", value |-> " | "]

\* d.get(key, default) and d.get(key)
Get(d, key, default) == IF key \in DOMAIN d THEN d[key] ELSE default

\* What requirements-dev.txt of the working directory may be: absent, a list
\* of packages, a list with an empty line, a list naming a package whose
\* import raises something else than ImportError
Requirements == {"ok", "missing", "blank_line", "import_raises"}

\* pystack_summary(): line.split()[0] of an empty line is an IndexError, and
\* only ImportError is handled around the import
PystackSummary(e) ==
    IF e.requirements \in {"blank_line", "import_raises"} THEN Raise
    ELSE IF e.requirements = "missing"
    THEN Ret(<<Text("Python "), Field("3.11"), SEP>>)
    ELSE Ret(<<Text("Python "), Field("3.11"), SEP, Field("duckdb: 1.0")>>)

\* f"{vendor} {model} {size} {media_type}".strip() of one drive record
StoragePart(d) ==
    LET model == Get(d, "model", "UnknownDrive")
        size == Get(d, "size", "None")
        media_type == Get(d, "media_type", "")
    IN  <<Field(model), Text(" "), Field(size)>>
            \o (IF media_type = "" THEN <<>> ELSE <<Text(" "), Field(media_type)>>)

\* " | ".join(storage_parts)
RECURSIVE JoinParts(_)
JoinParts(parts) ==
    IF parts = <<>> THEN <<>>
    ELSE IF Len(parts) = 1 THEN parts[1]
    ELSE parts[1] \o <<SEP>> \o JoinParts(Tail(parts))

\* ",".join([f"{info['GPU']} " for info in gpu_info]).strip(): a record
\* without the key 'GPU' is a KeyError
RECURSIVE GpuParts(_)
GpuParts(gpu_info) ==
    IF gpu_info = <<>> THEN <<>>
    ELSE <<Field(gpu_info[1].gpu)>>
            \o (IF Len(gpu_info) = 1 THEN <<>> ELSE <<Text(" ,")>>)
            \o GpuParts(Tail(gpu_info))

\* system_summary(), after get_system_diagnostics() returned sysinfo
SystemSummary(sysinfo, e) ==
    LET cpurec == sysinfo["CPU"]
        cpu == IF Truthy(cpurec.friendly) THEN cpurec.friendly ELSE cpurec.raw
        cpu_str ==
            IF cpu # <<>> /\ cpu[Len(cpu)] = ")"
            THEN <<Field(SubSeq(cpu, 1, Len(cpu) - 1)), Text(", "), Field(cpurec.cores),
                   Text("c/"), Field(cpurec.threads), Text("t)")>>
            ELSE <<Field(cpu), Text(" ("), Field(cpurec.cores), Text("c/"),
                   Field(cpurec.threads), Text("t)")>>
        ram == sysinfo["RAM"]
        ram_total == IF ram.advertised = NoneNum THEN "None" ELSE ram.advertised[1]
        ram_type == Get(ram, "memory_type", "")
        ram_speed == Get(ram, "speeds", <<>>)
        ram_str ==
            <<Field(ram_total), Text("GB "), Field(ram_type)>>
                \o (IF ram_speed = <<>> THEN <<>> ELSE <<Text("-"), Field(ram_speed)>>)
                \o <<Text(" RAM")>>
        storage == sysinfo["Storage"]
        storage_str == JoinParts([i \in DOMAIN storage |-> StoragePart(storage[i])])
        gpu_info == sysinfo["GPU"]
        showGpu == /\ e.gpu_import = "ok"
                   /\ gpu_info # <<>>
                   /\ "error" \notin DOMAIN gpu_info[1]
        keyError == showGpu /\ \E i \in DOMAIN gpu_info : "gpu" \notin DOMAIN gpu_info[i]
        py_stack == PystackSummary(e)
    IN  IF keyError \/ py_stack.raised THEN Raise
        ELSE Ret(<<Field(sysinfo["System"]), SEP>> \o cpu_str \o <<Text(" CPU"), SEP>>
                    \o ram_str \o <<SEP>> \o storage_str \o <<SEP>>
                    \o <<Field(sysinfo["OS"]), Text(" OS")>>
                    \o (IF showGpu THEN <<SEP>> \o GpuParts(gpu_info) \o <<Text(" GPU")>>
                        ELSE <<>>)
                    \o <<SEP>> \o py_stack.value)

\* A call of system_summary() is about to begin on the host e.
InitSummary ==
    /\ \E sys \in Platforms : \E e \in Envs(sys, MaxFaults) : \E r \in Requirements :
            DiagInit(sys, [e EXCEPT !.requirements = r])
    /\ ConvInit(<<>>)
    /\ PathIdle

\* get_system_diagnostics() has returned: system_summary formats the line and
\* returns it, or an exception leaves it.
Summarize ==
    /\ dpc = "returned"
    /\ LET r == SystemSummary(report, env)
       IN  IF r.raised
           THEN /\ dpc' = "summary raised"
                /\ summary' = summary
           ELSE /\ dpc' = "summarized"
                /\ summary' = r.value
    /\ UNCHANGED <<env, report, platform, convVars, pathVars>>

NextSummary ==
    \/ NextDiag
    \/ Summarize

SpecSummary == InitSummary /\ [][NextSummary]_vars

\* The positions of the separators in a line
Seps(line) == {i \in DOMAIN line : line[i].kind = "sep"}

\* The line holds the text t at position i
TextAt(line, i, t) == i \in DOMAIN line /\ line[i].kind = "text" /\ line[i].value = t

\* C16 (as claimed): for every diagnostic report, system_summary returns one
\* line with the System, CPU, RAM, Storage and OS segments in this order, each
\* present also when its fields are missing, None or error records, and with a
\* GPU segment only if some GPU record has no error.
C16_SummaryAlwaysRendered ==
    /\ dpc # "summary raised"
    /\ dpc = "summarized" =>
          \E c, r, o \in DOMAIN summary :
              /\ c < r /\ r < o
              /\ summary[1].kind = "field"
              /\ TextAt(summary, c, " CPU") /\ c + 1 \in Seps(summary)
              /\ TextAt(summary, r, " RAM") /\ r + 1 \in Seps(summary)
              /\ TextAt(summary, o, " OS")
              /\ Cardinality({i \in Seps(summary) : i < o}) >= 4
              /\ (\E g \in DOMAIN summary : TextAt(summary, g, " GPU")) =>
                    \E i \in DOMAIN report["GPU"] : "error" \notin DOMAIN report["GPU"][i]

-----------------------------------------------------------------------------
(* scripts/reconstruct_csvs.py: the order and number of the conversions *)

\* The calls of convert_parquet_to_csv this run has made for file i of the walk
CallsFor(i) == {j \in DOMAIN log : log[j].pos = i}

\* C17 (as claimed): in one run the conversion step is invoked for the files
\* one after the other in walk order, never for a file that lacks ".parquet"
\* or fails a filter, and, once the run has ended, exactly once for every
\* ".parquet" file that passes the filters.
C17_ExactlyOnceInWalkOrder ==
    /\ \A j, k \in DOMAIN log : j < k => log[j].pos < log[k].pos
    /\ \A j \in DOMAIN log :
          LET fname == walk[log[j].pos].name
          IN  /\ EndsWith(fname, PARQUET)
              /\ Truthy(year) => Contains(fname, year)
              /\ Truthy(month) => Contains(fname, MonthToken(month))
    /\ pc \in {"done", "aborted"} =>
          \A i \in DOMAIN walk :
              LET fname == walk[i].name
              IN  (/\ EndsWith(fname, PARQUET)
                   /\ Truthy(year) => Contains(fname, year)
                   /\ Truthy(month) => Contains(fname, MonthToken(month)))
                      => Cardinality(CallsFor(i)) = 1

-----------------------------------------------------------------------------
(* utils/sysinfo.py: get_ram_info on macOS *)

\* What the output of system_profiler SPMemoryDataType holds on the host of
\* the model: two banks, each with "Size: 8 GB" and "Speed: 1600 MT/s"
ProfilerSizes == <<8, 8>>
ProfilerSpeeds == <<1600>>

\* C18 (as claimed): on macOS, when the sysctl query and the system_profiler
\* query both succeed, the RAM record has no error, its DIMM sizes and speeds
\* are those parsed from the profiler output, and the slot counts are set.
C18_DarwinRamRecord ==
    (/\ platform = "Darwin"
     /\ "RAM" \in DOMAIN report
     /\ env.sysctl_memsize = "ok"
     /\ env.sp_memory = "ok") =>
        LET r == report["RAM"]
        IN  /\ "error" \notin DOMAIN r
            /\ r.dimm_sizes = ProfilerSizes
            /\ r.speeds = ProfilerSpeeds
            /\ {"slots_used", "slots_total"} \subseteq DOMAIN r

\* C19 (as claimed): the mapping from input files to output paths is
\* injective: two calls of one run never have the same output path, and a file
\* is skipped only for an output that was written from this very file.
C19_PathMappingInjective ==
    /\ \A j, k \in DOMAIN log : j # k => log[j].outp # log[k].outp
    /\ \A j \in DOMAIN log :
          log[j].result = "skipped" =>
              out[log[j].outp].src = InFile(walk[log[j].pos])

====
